---- MODULE Spec2Model ----
(***************************************************************************)
(* Registration / e-mail confirmation flow of study_site.                  *)
(*                                                                         *)
(*   src/src/endpoints/register.rs   handlers register, confirm and        *)
(*                                   activate_new_user                     *)
(*   src/src/startup.rs              run(): the services the App mounts     *)
(*                                   and the app data it registers          *)
(*                                                                         *)
(* Every .await of a handler is one step, so that requests interleave at    *)
(* the points where the single worker can switch tasks.  The user store     *)
(* (MongoRepo), the token codec with its invalidation store                 *)
(* (auth::tokens) and the mailer (utils::emails) live outside these two     *)
(* files; they are modelled from their documented contracts.                *)
(*                                                                         *)
(* Requests have no identity beyond their state, so the requests received   *)
(* so far are kept as a bag of request records.                             *)
(***************************************************************************)
EXTENDS Integers, Sequences, FiniteSets, Bags, TLC

\* ------------------------------------------------------------------ bounds
MaxReqs    == 3   \* requests received in one behaviour
MaxUsers   == 2   \* register requests among them (one user record each)
MaxExpired == 1   \* tokens whose expiry the clock passes in one behaviour

VARIABLES
    users,      \* user store: user id -> record
    store,      \* invalidation store: token ids present (recorded, unused)
    issued,     \* token strings issued so far; issued[tid] has identifier tid
    expired,    \* token ids whose expiry the clock has passed
    emails,     \* token ids dispatched to the user by e-mail
    recorded,   \* history: token ids that were ever written to the store
    notFound,   \* token strings of the requests the server answered 404
    refused,    \* requests the server answered 500 before the handler body
    reqs,       \* bag of the requests the handlers were entered with
    poolUp      \* the invalidation store answers the connection pool

vars == <<users, store, issued, expired, emails, recorded, notFound, refused, reqs,
          poolUp>>

\* ------------------------------------------------------------- data types
Flags == {"None", "Some(false)", "Some(true)"}      \* Option<bool>
Names == {"n1"}
NewNames == {"n2"}                                  \* written by /v1 update

\* The fields of the form that register deserializes (Form<User>): a form
\* without the is_active field, and one that carries is_active=true.
Forms == [first_name : Names, is_active : {"None", "Some(true)"}]

NoUser  == [first_name |-> "", is_active |-> "absent"]
NoForm  == [first_name |-> "", is_active |-> "None"]
NoToken == [enc |-> "none", purpose |-> "", user_id |-> 0, tid |-> 0]

IsActive(user) == user.is_active = "Some(true)"

\* ------------------------------------------------------- credential codec
\* issue: claim set {purpose, subject, token id} with an expiry, signed.
Issue(uid, tid) ==
    [enc |-> "ok", purpose |-> "confirm", user_id |-> uid, tid |-> tid]

\* What a client can make of a token it holds.
Tamper(tok)    == [tok EXCEPT !.enc = "badsig"]
Repurpose(tok) == [tok EXCEPT !.purpose = "password"]
Malformed == [enc |-> "malformed", purpose |-> "", user_id |-> 0, tid |-> 0]

\* Variant: the expiry claim is not validated.
CodecVerify_NoExpiry(tok, exp) ==
    IF tok.enc = "malformed" THEN "MalformedToken"
    ELSE IF tok.enc = "badsig" THEN "SignatureInvalid"
    ELSE IF tok.purpose # "confirm" THEN "PurposeMismatch"
    ELSE "Ok"

\* verify: decode, authenticate, purpose, expiry (now > expires_at).
CodecVerify(tok, exp) ==
    IF tok.enc = "malformed" THEN "MalformedToken"
    ELSE IF tok.enc = "badsig" THEN "SignatureInvalid"
    ELSE IF tok.purpose # "confirm" THEN "PurposeMismatch"
    ELSE IF tok.tid \in exp THEN "Expired"
    ELSE "Ok"

\* consume: atomic check-and-delete on the invalidation store.
Consume(tid, s) == IF tid \in s THEN "Ok" ELSE "AlreadyUsed"

\* verify_confirmation_token_pasetor(token, conn, None)
VerifyConfirmationToken(tok, s, exp) ==
    IF CodecVerify(tok, exp) # "Ok" THEN CodecVerify(tok, exp) ELSE Consume(tok.tid, s)

\* ----------------------------------------------------------------- routing
\* Services mounted on the App built by run().
Services ==
    {"favicon", "stylesheet", "source_map", "htmx", "response_targets",
     "english_image", "science_image", "math_image", "social_studies_image",
     "login", "index", "login_user", "registration", "register",
     "create", "get_user", "update_user", "delete_user", "get_users",
     "health_check"}

\* Route attributes of the handlers of register.rs.
RouteOf ==
    [registration |-> <<"GET", "/registration">>,
     register     |-> <<"POST", "/register">>,
     confirm      |-> <<"GET", "/register/confirm">>]

Handlers == DOMAIN RouteOf

\* The service that answers a request line, "not_found" when none is mounted.
Route(line) ==
    IF \E h \in Handlers \cap Services : RouteOf[h] = line
    THEN CHOOSE h \in Handlers \cap Services : RouteOf[h] = line
    ELSE "not_found"

\* Types of the app data that run() registers on the App: mongo_pool is
\* Data<mongodb::Database>, redis_pool is Data<deadpool_redis::Pool>.
AppData == {"Database", "Pool"}

\* Types of the Data<T> arguments of the handlers of register.rs.
Extracts ==
    [registration |-> {},
     register     |-> {"MongoRepo", "Pool"},
     confirm      |-> {"MongoRepo", "Pool"}]

\* Every Data<T> extractor of handler h finds its T among the app data;
\* otherwise the extractor answers 500 and the body of h is not entered.
Configured(h) == Extracts[h] \subseteq AppData

\* --------------------------------------------------------------- requests
NewReq(kind, pc, form, token) ==
    [kind |-> kind, pc |-> pc, form |-> form, token |-> token,
     uid |-> 0, tid |-> 0, conn |-> FALSE, user |-> NoUser, resp |-> 0,
     err |-> "", branch |-> ""]

Reqs == BagToSet(reqs)
Registers == {r \in Reqs : r.kind = "register"}
Confirms  == {r \in Reqs : r.kind = "confirm"}

Enter(r) == reqs (+) SetToBag({r})

\* Request r moves on to state r2.
Set(r, r2) == (reqs (-) SetToBag({r})) (+) SetToBag({r2})

\* Token strings a client may present: the ones it received by e-mail, and
\* what fails to decode, to authenticate or to match the purpose.
LastEmailed == {t \in emails : \A u \in emails : u <= t}

TokenInputs ==
    {issued[t] : t \in emails}
      \cup {Malformed}
      \cup UNION {{Tamper(issued[t]), Repurpose(issued[t])} : t \in LastEmailed}

Init ==
    /\ users = <<>>
    /\ store = {}
    /\ issued = <<>>
    /\ expired = {}
    /\ emails = {}
    /\ recorded = {}
    /\ notFound = {}
    /\ refused = {}
    /\ reqs = EmptyBag
    /\ poolUp = TRUE

\* Requests received so far: entered into a handler, or answered by the
\* server without one (404, or 500 from an extractor).
NumReqs == BagCardinality(reqs) + Cardinality(refused) + Cardinality(notFound)

\* Register requests received so far, by the handler or refused before it.
NumRegisters ==
    BagCardinality([g \in Registers |-> CopiesIn(g, reqs)])
      + Cardinality({q \in refused : q[1] = "register"})

\* POST /register with a form, received by the server of run(): the route
\* is mounted, and the handler is entered only if its extractors succeed.
PostRegister(form) ==
    /\ NumReqs < MaxReqs
    /\ NumRegisters < MaxUsers
    /\ Route(<<"POST", "/register">>) = "register"
    /\ IF Configured("register")
       THEN /\ reqs' = Enter(NewReq("register", "create_user", form, NoToken))
            /\ UNCHANGED refused
       ELSE /\ <<"register", form>> \notin refused
            /\ refused' = refused \cup {<<"register", form>>}
            /\ UNCHANGED reqs
    /\ UNCHANGED <<users, store, issued, expired, emails, recorded, notFound, poolUp>>

\* The register handler entered with Data<MongoRepo>, Form<User> and
\* Data<Pool> (not through run()).
Register(form) ==
    /\ NumReqs < MaxReqs
    /\ NumRegisters < MaxUsers
    /\ reqs' = Enter(NewReq("register", "create_user", form, NoToken))
    /\ UNCHANGED <<users, store, issued, expired, emails, recorded, notFound, refused, poolUp>>

\* GET /register/confirm?token=..., received by the server of run().
GetConfirm(tok) ==
    /\ NumReqs < MaxReqs
    /\ IF Route(<<"GET", "/register/confirm">>) # "confirm"
       THEN /\ tok \notin notFound
            /\ notFound' = notFound \cup {tok}
            /\ UNCHANGED <<reqs, refused>>
       ELSE IF Configured("confirm")
       THEN /\ reqs' = Enter(NewReq("confirm", "redis_get", NoForm, tok))
            /\ UNCHANGED <<notFound, refused>>
       ELSE /\ <<"confirm", tok>> \notin refused
            /\ refused' = refused \cup {<<"confirm", tok>>}
            /\ UNCHANGED <<reqs, notFound>>
    /\ UNCHANGED <<users, store, issued, expired, emails, recorded, poolUp>>

\* The confirm handler entered with Query<Parameters> (not through run()).
Confirm(tok) ==
    /\ NumReqs < MaxReqs
    /\ reqs' = Enter(NewReq("confirm", "redis_get", NoForm, tok))
    /\ UNCHANGED <<users, store, issued, expired, emails, recorded, notFound, refused, poolUp>>

\* ------------------------------------------------------ register handler
\* MongoRepo::create_user: inserts the document it is given.
CreateUser(user) == user

\* register hands the deserialized form to create_user as it is.
RegisterNewUser(form) == [first_name |-> form.first_name, is_active |-> form.is_active]

\* Variant: the Err arm logs and falls through to the rest of the handler.
RegisterOnCreate_Continue(result) ==
    IF result = "Ok"
    THEN [pc |-> "redis_get", resp |-> 0, branch |-> ""]
    ELSE [pc |-> "redis_get", resp |-> 0, branch |-> "create_failed"]

\* match pool.create_user(..).await { Ok => go on, Err => 500 }
RegisterOnCreate(result) ==
    IF result = "Ok"
    THEN [pc |-> "redis_get", resp |-> 0, branch |-> ""]
    ELSE [pc |-> "done", resp |-> 500, branch |-> "create_failed"]

\* Config::from_url(..).create_pool(Some(Tokio1)): no timeouts are set, so
\* redis_pool.get().await completes only when the store answers.
PoolAnswers(up) == up

\* redis_pool.get().await.map_err(..).expect(..): Err panics, no response.
RegisterOnPool(result) ==
    IF result = "Ok"
    THEN [pc |-> "issue", resp |-> 0, branch |-> ""]
    ELSE [pc |-> "panicked", resp |-> 0, branch |-> "redis_failed"]

\* Variant: the result of send_multipart_email is dropped (no expect).
RegisterOnSend_Swallow(result) ==
    [pc |-> "done", resp |-> 200, branch |-> IF result = "Ok" THEN "ok" ELSE result]

\* Variant: a failed dispatch is treated as best effort.
RegisterOnSend_BestEffort(result) ==
    IF result \in {"Ok", "dispatch_failed"}
    THEN [pc |-> "done", resp |-> 200, branch |-> IF result = "Ok" THEN "ok" ELSE result]
    ELSE [pc |-> "panicked", resp |-> 0, branch |-> result]

\* send_multipart_email(..).await.expect(..), then the 200 response.
RegisterOnSend(result) ==
    IF result = "Ok"
    THEN [pc |-> "done", resp |-> 200, branch |-> "ok"]
    ELSE [pc |-> "panicked", resp |-> 0, branch |-> result]

Goto(r, o) == [r EXCEPT !.pc = o.pc, !.resp = o.resp, !.branch = o.branch]

RegisterCreateUser(r, result) ==
    /\ r.kind = "register" /\ r.pc = "create_user"
    /\ IF result = "Ok"
       THEN /\ users' = Append(users, CreateUser(RegisterNewUser(r.form)))
            /\ reqs' = Set(r, [Goto(r, RegisterOnCreate(result))
                                 EXCEPT !.uid = Len(users) + 1])
       ELSE /\ users' = users
            /\ reqs' = Set(r, Goto(r, RegisterOnCreate(result)))
    /\ UNCHANGED <<store, issued, expired, emails, recorded, notFound, refused, poolUp>>

RegisterRedisGet(r, result) ==
    /\ r.kind = "register" /\ r.pc = "redis_get"
    /\ PoolAnswers(poolUp)
    /\ result = "Ok" => poolUp
    /\ reqs' = Set(r, [Goto(r, RegisterOnPool(result))
                         EXCEPT !.conn = (result = "Ok")])
    /\ UNCHANGED <<users, store, issued, expired, emails, recorded, notFound, refused, poolUp>>

\* send_multipart_email, first half: issue the token and record its
\* identifier; a failed write fails the whole send.  (inserted_id is the
\* ObjectId the store generated, so as_object_id().expect(..) passes.)
SendIssue(r, result) ==
    /\ r.kind = "register" /\ r.pc = "issue"
    /\ LET tid == Len(issued) + 1 IN
       /\ issued' = Append(issued, Issue(r.uid, tid))
       /\ IF result = "Ok"
          THEN /\ store' = store \cup {tid}
               /\ recorded' = recorded \cup {tid}
               /\ reqs' = Set(r, [r EXCEPT !.tid = tid, !.pc = "dispatch"])
          ELSE /\ UNCHANGED <<store, recorded>>
               /\ reqs' = Set(r, [Goto(r, RegisterOnSend("record_failed"))
                                    EXCEPT !.tid = tid])
    /\ UNCHANGED <<users, expired, emails, notFound, refused, poolUp>>

\* send_multipart_email, second half: hand the message to the gateway.
SendDispatch(r, result) ==
    /\ r.kind = "register" /\ r.pc = "dispatch"
    /\ emails' = IF result = "Ok" THEN emails \cup {r.tid} ELSE emails
    /\ reqs' = Set(r, Goto(r,
                   RegisterOnSend(IF result = "Ok" THEN "Ok" ELSE "dispatch_failed")))
    /\ UNCHANGED <<users, store, issued, expired, recorded, notFound, refused, poolUp>>

\* ------------------------------------------------------- confirm handler
ConfirmOnPool(result) ==
    IF result = "Ok"
    THEN [pc |-> "verify", resp |-> 0, branch |-> ""]
    ELSE [pc |-> "panicked", resp |-> 0, branch |-> "redis_failed"]

\* Variant: the Err arm logs and goes on to activate_new_user.
ConfirmOnVerify_GoOn(result) ==
    [pc |-> "get_user", resp |-> 0, branch |-> ""]

\* Variant: the Err arm answers with the success status.
ConfirmOnVerify_Ok200(result) ==
    IF result = "Ok"
    THEN [pc |-> "get_user", resp |-> 0, branch |-> ""]
    ELSE [pc |-> "done", resp |-> 200, branch |-> "verify_failed"]

\* Variant: a token that was already used is accepted again.
ConfirmOnVerify_Idempotent(result) ==
    IF result \in {"Ok", "AlreadyUsed"}
    THEN [pc |-> "get_user", resp |-> 0, branch |-> ""]
    ELSE [pc |-> "done", resp |-> 500, branch |-> "verify_failed"]

\* match verify_confirmation_token_pasetor(..).await { Ok => go on, Err => 500 }
ConfirmOnVerify(result) ==
    IF result = "Ok"
    THEN [pc |-> "get_user", resp |-> 0, branch |-> ""]
    ELSE [pc |-> "done", resp |-> 500, branch |-> "verify_failed"]

\* Variant: a failed get_user is tried again.
ActivateOnGet_Retry(result) ==
    IF result = "Ok"
    THEN [pc |-> "update_user", resp |-> 0, branch |-> ""]
    ELSE [pc |-> "get_user", resp |-> 0, branch |-> "get_user_failed"]

\* activate_new_user: get_user Err is returned to confirm, which answers 500.
ActivateOnGet(result) ==
    IF result = "Ok"
    THEN [pc |-> "update_user", resp |-> 0, branch |-> ""]
    ELSE [pc |-> "done", resp |-> 500, branch |-> "get_user_failed"]

\* activate_new_user: update_user(..).await.expect(..), then Ok(()) and the
\* 200 response of confirm.
ActivateOnUpdate(result) ==
    IF result = "Ok"
    THEN [pc |-> "done", resp |-> 200, branch |-> "ok"]
    ELSE [pc |-> "panicked", resp |-> 0, branch |-> "update_failed"]

\* Variant: the flag is not set on the loaded record.
Activated_Unset(user) == user

\* user.is_active = Some(true)
Activated(user) == [user EXCEPT !.is_active = "Some(true)"]

\* The ErrorPage that the Err arm of the verification match renders.
ConfirmErrorPage(err) ==
    [title   |-> "Internal Server Error",
     code    |-> "500",
     message |-> "Unable to activate your account at this time. Please try again later.",
     error   |-> err]

\* ErrorPage::render(): the template filled with the fields of the page.
Render(page) == <<page.title, page.code, page.message, page.error>>

\* Body of the response of a confirm request that failed verification.
Body(r) == Render(ConfirmErrorPage(r.err))

ConfirmRedisGet(r, result) ==
    /\ r.kind = "confirm" /\ r.pc = "redis_get"
    /\ PoolAnswers(poolUp)
    /\ result = "Ok" => poolUp
    /\ reqs' = Set(r, [Goto(r, ConfirmOnPool(result))
                         EXCEPT !.conn = (result = "Ok")])
    /\ UNCHANGED <<users, store, issued, expired, emails, recorded, notFound, refused, poolUp>>

\* cache = "Err": the invalidation store does not answer the verification.
ConfirmVerify(r, cache) ==
    /\ r.kind = "confirm" /\ r.pc = "verify"
    /\ LET tok == r.token
           result == IF cache = "Ok"
                     THEN VerifyConfirmationToken(tok, store, expired)
                     ELSE "CacheError"
       IN
       /\ store' = IF result = "Ok" THEN store \ {tok.tid} ELSE store
       /\ reqs' = Set(r, [Goto(r, ConfirmOnVerify(result))
                            EXCEPT !.uid = IF result = "Ok" THEN tok.user_id ELSE 0,
                                   !.tid = IF result = "Ok" THEN tok.tid ELSE 0,
                                   !.err = IF result = "Ok" THEN "" ELSE result])
    /\ UNCHANGED <<users, issued, expired, emails, recorded, notFound, refused, poolUp>>

ActivateGetUser(r, result) ==
    /\ r.kind = "confirm" /\ r.pc = "get_user"
    /\ result = "Ok" => r.uid \in DOMAIN users
    /\ reqs' = Set(r, [Goto(r, ActivateOnGet(result))
                         EXCEPT !.user = IF result = "Ok"
                                         THEN Activated(users[r.uid])
                                         ELSE NoUser])
    /\ UNCHANGED <<users, store, issued, expired, emails, recorded, notFound, refused, poolUp>>

ActivateUpdateUser(r, result) ==
    /\ r.kind = "confirm" /\ r.pc = "update_user"
    /\ users' = IF result = "Ok"
                THEN [users EXCEPT ![r.uid] = r.user]
                ELSE users
    /\ reqs' = Set(r, Goto(r, ActivateOnUpdate(result)))
    /\ UNCHANGED <<store, issued, expired, emails, recorded, notFound, refused, poolUp>>

\* ---------------------------------------------------------- other writers
\* The update_user service mounted under /v1: the store's update(id, user)
\* with a record that carries a new first_name, answered in one step.
V1UpdateUser(uid, name) ==
    /\ NumReqs < MaxReqs
    /\ uid \in DOMAIN users
    /\ users[uid].first_name # name
    /\ users' = [users EXCEPT ![uid].first_name = name]
    /\ reqs' = Enter([NewReq("update", "done", NoForm, NoToken)
                        EXCEPT !.uid = uid, !.resp = 200, !.branch = "ok"])
    /\ UNCHANGED <<store, issued, expired, emails, recorded, notFound, refused, poolUp>>

\* ------------------------------------------------------------ environment
\* The clock passes the expiry of the oldest unexpired token (tokens have
\* the same ttl, so they expire in the order of issue).
Expire(tid) ==
    /\ Cardinality(expired) < MaxExpired
    /\ tid \in DOMAIN issued
    /\ tid \notin expired
    /\ \A t \in 1..(tid - 1) : t \in expired
    /\ expired' = expired \cup {tid}
    /\ UNCHANGED <<users, store, issued, emails, recorded, notFound, refused, reqs, poolUp>>

\* The store's TTL evicts a record once its window has passed.
StoreExpire(tid) ==
    /\ tid \in store
    /\ tid \in expired
    /\ store' = store \ {tid}
    /\ UNCHANGED <<users, issued, expired, emails, recorded, notFound, refused, reqs, poolUp>>

Results == {"Ok", "Err"}

Next ==
    \/ \E form \in Forms : PostRegister(form)
    \/ \E form \in Forms : Register(form)
    \/ \E t \in emails : GetConfirm(issued[t])
    \/ \E tok \in TokenInputs : Confirm(tok)
    \/ \E r \in Reqs, result \in Results : RegisterCreateUser(r, result)
    \/ \E r \in Reqs, result \in Results : RegisterRedisGet(r, result)
    \/ \E r \in Reqs, result \in Results : SendIssue(r, result)
    \/ \E r \in Reqs, result \in Results : SendDispatch(r, result)
    \/ \E r \in Reqs, result \in Results : ConfirmRedisGet(r, result)
    \/ \E r \in Reqs, cache \in Results : ConfirmVerify(r, cache)
    \/ \E r \in Reqs, result \in Results : ActivateGetUser(r, result)
    \/ \E r \in Reqs, result \in Results : ActivateUpdateUser(r, result)
    \/ \E uid \in DOMAIN users, name \in NewNames : V1UpdateUser(uid, name)
    \/ \E tid \in DOMAIN issued : Expire(tid)
    \/ \E tid \in store : StoreExpire(tid)

Spec == Init /\ [][Next]_vars

\* The server is started whether or not the invalidation store is reachable
\* (create_pool connects lazily).
LiveInit ==
    /\ users = <<>>
    /\ store = {}
    /\ issued = <<>>
    /\ expired = {}
    /\ emails = {}
    /\ recorded = {}
    /\ notFound = {}
    /\ refused = {}
    /\ reqs = EmptyBag
    /\ poolUp \in BOOLEAN

\* A step of a handler that has been entered.
Progress ==
    \E r \in Reqs, result \in Results :
        \/ RegisterCreateUser(r, result)
        \/ RegisterRedisGet(r, result)
        \/ SendIssue(r, result)
        \/ SendDispatch(r, result)
        \/ ConfirmRedisGet(r, result)
        \/ ConfirmVerify(r, result)
        \/ ActivateGetUser(r, result)
        \/ ActivateUpdateUser(r, result)

\* The runtime polls every task whose awaited operation has completed.
LiveSpec == LiveInit /\ [][Next]_vars /\ WF_vars(Progress)

\* =================================================================== claims
\* The request passed token verification and went on to activate_new_user.
GoesOn(r) ==
    \/ r.pc \in {"get_user", "update_user"}
    \/ r.branch \in {"ok", "get_user_failed", "update_failed"}

\* The request took the Err arm of the verification match.
VerifyFailed(r) == r.branch = "verify_failed"

Terminal(r) == r.pc \in {"done", "panicked"}

ActivationFailed(r) == r.branch \in {"get_user_failed", "update_failed"}

\* Request state r was reached in this step.
Reached(r) == CopiesIn(r, reqs') > CopiesIn(r, reqs)

\* C1: of the confirm requests that carry the same token string, whatever
\* their interleaving, at most one passes verification and goes on to
\* activate the user; every other one that got an answer from verification
\* is in the verification-failure branch with the 500 response.
C1_SingleUse ==
    \A r \in Confirms :
        GoesOn(r) =>
            /\ CopiesIn(r, reqs) = 1
            /\ \A q \in Confirms \ {r} :
                 q.token = r.token
                   => /\ ~GoesOn(q)
                      /\ (q.pc = "done" => VerifyFailed(q) /\ q.resp = 500)

\* Two requests with the same genuine token: one passed, one was refused.
C1_Witness ==
    \E r \in Confirms : \E q \in Confirms :
        /\ r.token = q.token
        /\ r.token.enc = "ok" /\ r.token.purpose = "confirm"
        /\ GoesOn(r)
        /\ q.err = "AlreadyUsed"

\* C2: a GET /register/confirm request that reaches the server with the
\* token of a successful registration, still recorded and unexpired, is
\* routed to the confirm handler (it is not answered 404).
C2_ConfirmRouted ==
    \A t \in DOMAIN issued :
        ( /\ t \in store
          /\ t \in emails
          /\ t \notin expired
          /\ \E g \in Registers : g.resp = 200 /\ g.tid = t )
        => issued[t] \notin notFound

\* C3: in the step in which confirm returns 200 the subject of the token is
\* active in the user store and the token's identifier is not in the
\* invalidation store.
C3_SuccessMeansActive ==
    [][ \A r \in BagToSet(reqs') :
          (r.kind = "confirm" /\ r.resp = 200 /\ Reached(r))
            => /\ r.token.user_id \in DOMAIN users'
               /\ IsActive(users'[r.token.user_id])
               /\ r.token.tid \notin store' ]_vars

\* A confirmation answered 200 for a user that registered without the flag.
C3_Witness ==
    \E r \in Confirms : \E g \in Registers :
        /\ r.resp = 200
        /\ g.uid = r.token.user_id
        /\ ~IsActive(g.form)
        /\ IsActive(users[r.token.user_id])
        /\ r.token.tid \notin store

\* C4: every record that register persists is inactive when it is persisted,
\* whatever the form carried.
C4_PersistedInactive ==
    [][ Len(users') > Len(users) => ~IsActive(users'[Len(users')]) ]_vars

\* C5: a user is active only if a confirm request passed verification of a
\* token whose subject is that user.
C5_ActiveOnlyByConfirm ==
    \A u \in DOMAIN users :
        IsActive(users[u]) =>
            \E r \in Confirms : GoesOn(r) /\ r.token.user_id = u

\* C6: a token is dispatched by e-mail only after its identifier was written
\* to the invalidation store; a register request whose record write failed
\* dispatches nothing and does not answer 200.
C6_RecordBeforeDispatch ==
    [][ /\ \A t \in emails' \ emails : t \in recorded
        /\ \A g \in BagToSet(reqs') :
             (g.kind = "register" /\ g.branch = "record_failed")
               => /\ g.tid \notin emails'
                  /\ g.tid \notin recorded'
                  /\ g.resp # 200 ]_vars

\* A register request whose record write failed, ended without a response.
C6_Witness ==
    \E g \in Registers :
        /\ g.branch = "record_failed"
        /\ g.tid \in DOMAIN issued
        /\ g.tid \notin emails
        /\ g.resp = 0

\* C7: the step in which verification fails, for whatever reason, ends the
\* request with the 500 response and changes no user record; a subject that
\* was inactive is still inactive.
C7_VerifyFailureIsInert ==
    [][ \A r \in BagToSet(reqs') :
          (r.kind = "confirm" /\ r.err # "" /\ Reached(r))
            => /\ r.resp = 500
               /\ r.pc = "done"
               /\ users' = users ]_vars

\* A replay of a consumed token was refused while the subject is inactive.
C7_Witness ==
    \E r \in Confirms :
        /\ r.err = "AlreadyUsed"
        /\ r.resp = 500
        /\ r.token.user_id \in DOMAIN users
        /\ ~IsActive(users[r.token.user_id])

\* C8: when get_user or update_user fails after the token was consumed, the
\* failing step writes nothing (the user stays as registered), the request
\* has ended and is not run again, the token is not in the store, and no
\* other request with that token passes verification.
C8_BurnedToken ==
    [][ \A r \in BagToSet(reqs') :
          (r.kind = "confirm" /\ ActivationFailed(r))
            => /\ Reached(r) => users' = users
               /\ Terminal(r)
               /\ r.token.tid \notin store'
               /\ CopiesIn(r, reqs') = 1
               /\ \A q \in BagToSet(reqs') \ {r} :
                    (q.kind = "confirm" /\ q.token = r.token) => ~GoesOn(q)
               /\ \A g \in BagToSet(reqs') :
                    (g.kind = "register" /\ g.uid = r.token.user_id /\ ~IsActive(g.form))
                      => ~IsActive(users'[r.token.user_id]) ]_vars

\* Activation failed after consumption and a later replay was refused.
C8_Witness ==
    \E r \in Confirms : \E q \in Confirms :
        /\ ActivationFailed(r)
        /\ q.token = r.token
        /\ q.err = "AlreadyUsed"
        /\ ~IsActive(users[r.token.user_id])

\* C9: a register request whose create_user failed has answered 500 and has
\* done nothing else: no store connection, no token issued or recorded, no
\* e-mail.
C9_CreateFailureAborts ==
    \A g \in Registers :
        g.branch = "create_failed"
          => /\ g.resp = 500
             /\ g.pc = "done"
             /\ ~g.conn
             /\ g.tid = 0
             /\ g.uid = 0

C9_Witness ==
    \E g \in Registers :
        /\ g.branch = "create_failed"
        /\ g.resp = 500
        /\ users = <<>> /\ issued = <<>> /\ store = {} /\ emails = {}

\* C10: a register request that failed after create_user and before a token
\* was issued and recorded leaves its user record in the store, inactive and
\* without a recorded token.
C10_OrphanInactive ==
    \A g \in Registers :
        g.branch \in {"redis_failed", "record_failed"}
          => /\ g.uid \in DOMAIN users
             /\ ~IsActive(users[g.uid])
             /\ \A t \in store : issued[t].user_id # g.uid
             /\ Terminal(g)

\* C11: the step in which the dispatch of the e-mail fails ends the register
\* request without the success response, and leaves the user record and the
\* invalidation record of the token where they are.
C11_DispatchFailureIsFatal ==
    [][ \A g \in BagToSet(reqs') :
          (g.kind = "register" /\ g.branch = "dispatch_failed" /\ Reached(g))
            => /\ g.resp # 200
               /\ Terminal(g)
               /\ users' = users
               /\ g.uid \in DOMAIN users'
               /\ store' = store
               /\ g.tid \in recorded'
               /\ g.tid \notin expired => g.tid \in store' ]_vars

\* A registration ended by a failed dispatch; its user and record are there.
C11_Witness ==
    \E g \in Registers :
        /\ g.branch = "dispatch_failed"
        /\ g.resp = 0
        /\ g.uid \in DOMAIN users
        /\ g.tid \in store
        /\ g.tid \notin emails

\* C12: every request that has ended was answered with the success response
\* or with a 500-class response.
C12_AlwaysAnswered ==
    \A r \in Reqs : Terminal(r) => r.resp \in {200, 500}

\* C13: a token identifier enters the store only if it was never there
\* before; an identifier that was recorded and is absent (consumed or
\* expired) is absent after every step, also after the record write of a
\* later register request; and a request passes verification only with an
\* identifier that is in the store and is removed by that step.
C13_ForwardOnly ==
    [][ /\ \A t \in store' \ store : t \notin recorded /\ t \notin DOMAIN issued
        /\ \A t \in recorded : t \notin store => t \notin store'
        /\ \A r \in BagToSet(reqs') :
             (r.kind = "confirm" /\ r.pc = "get_user" /\ Reached(r))
               => /\ r.token.tid \in store
                  /\ r.token.tid \notin store' ]_vars

\* Two registrations and a confirmation in one behaviour: the identifier of
\* the first was recorded and then consumed, the later one is recorded and
\* present, and the consumed one is absent.
C13_Witness ==
    \E r \in Confirms : \E g \in Registers :
        /\ GoesOn(r)
        /\ r.token.tid \in recorded
        /\ r.token.tid \notin store
        /\ r.token.tid \notin expired
        /\ g.tid > r.token.tid
        /\ g.tid \in store

\* C14: no request passes verification with a token whose expiry has passed,
\* whether or not its record is still in the store; such a request changes
\* no user record.
C14_ExpiredNeverVerifies ==
    [][ \A r \in BagToSet(reqs') :
          (r.kind = "confirm" /\ Reached(r) /\ r.token.tid \in expired)
            => /\ r.pc # "get_user"
               /\ VerifyFailed(r) => (r.resp = 500 /\ users' = users) ]_vars

\* An expired token was refused while its record is still in the store.
C14_Witness ==
    \E r \in Confirms :
        /\ r.err = "Expired"
        /\ r.resp = 500
        /\ r.token.tid \in store
        /\ ~IsActive(users[r.token.user_id])

\* C15: the responses of confirm requests that failed because the token was
\* consumed, never recorded or expired have the same status and body, and
\* the body of a failed request does not carry the cause of the failure.
C15_UniformFailure ==
    /\ \A r \in Confirms : \A q \in Confirms :
         (r.err \in {"AlreadyUsed", "Expired"} /\ q.err \in {"AlreadyUsed", "Expired"})
           => (r.resp = q.resp /\ Body(r) = Body(q))
    /\ \A r \in Confirms :
         VerifyFailed(r) => \A i \in DOMAIN Body(r) : Body(r)[i] # r.err

\* C16: every request that was received ends.
C16_EveryRequestEnds ==
    <>[](\A r \in Reqs : Terminal(r))

\* C17: the step in which the activation succeeds leaves in the store the
\* record that was there, with is_active set to true.
C17_ActivationKeepsWrites ==
    [][ \A r \in BagToSet(reqs') :
          (r.kind = "confirm" /\ r.resp = 200 /\ Reached(r))
            => users'[r.uid] = Activated(users[r.uid]) ]_vars
====
